---- MODULE Spec2Model ----
(***************************************************************************)
(* K-Medians clustering (heat/cluster/kmedians.py): the centroid update    *)
(* _update_centroids and the Lloyd loop of fit, run by W cooperating       *)
(* workers on a row-partitioned data matrix.                               *)
(*                                                                         *)
(* Conventions.  Indices are 0-based as in the source: rows 0..N-1,        *)
(* columns 0..D-1, clusters 0..K-1, ranks 0..W-1; matrices are functions   *)
(* over these ranges.  Data entries are integers.  A median of an even     *)
(* number of integers is a half-integer, so every CenterSet entry is       *)
(* stored as TWICE its value, the inertia as FOUR times its value and the  *)
(* tolerance is scaled by four where the two are compared.                 *)
(***************************************************************************)
EXTENDS Integers, Sequences, FiniteSets, TLC

VARIABLES
    X,                    \* fit's / _update_centroids' argument: the N x D data matrix (global view)
    X_type,               \* <<type(X)>> of the last call's argument (None before any call)
    lshape,               \* X's row partition: lshape[p] = number of local rows of rank p
    n_clusters,           \* self.n_clusters
    max_iter,             \* self.max_iter
    tol,                  \* self.tol (None or a number)
    cluster_centers,      \* self._cluster_centers, one copy per rank (None before the first fit)
    new_cluster_centers,  \* the value _update_centroids returned last, one copy per rank
    matching_centroids,   \* fit's local matching_centroids / the update's argument
    labels,               \* self._labels
    n_iter,               \* self._n_iter
    inertia,              \* self._inertia, one value per rank
    pc,                   \* position of the caller / of fit
    passes,               \* history: the inertia computed by each pass of the running fit
    collectives,          \* history: number of collective operations entered since the last call began
    call_log,             \* history: the results of the direct calls of _update_centroids
    samples,              \* history: the values ht.random.randint returned during the last update
    single,               \* the same fit run with all rows on one worker (partition equivalence)
    error,                \* <<kind>> of the exception the last call raised (None if it raised none)
    outcomes              \* history: iteration count and inertias of every fit that returned

vars == <<X, X_type, lshape, n_clusters, max_iter, tol, cluster_centers,
          new_cluster_centers, matching_centroids, labels, n_iter, inertia, pc,
          passes, collectives, call_log, samples, single, error, outcomes>>

(***************************************************************************)
(* Bounds of the model.                                                    *)
(***************************************************************************)
MaxW == 2          \* workers
MaxK == 2          \* clusters
MaxIter == 3       \* max_iter ranges over 0..MaxIter

\* Python's None (an empty tuple, so that it compares with numbers' wrappers and arrays)
None == <<>>

(***************************************************************************)
(* Arithmetic helpers.                                                     *)
(***************************************************************************)
Abs(v) == IF v < 0 THEN -v ELSE v

RECURSIVE SumTo(_, _)
\* f[0] + ... + f[n-1]
SumTo(f, n) == IF n = 0 THEN 0 ELSE SumTo(f, n - 1) + f[n - 1]

Rows(M) == Cardinality(DOMAIN M)

Cols(M) == IF Rows(M) = 0 THEN 0 ELSE Cardinality(DOMAIN M[0])

Size(l) == Cardinality(DOMAIN l)

(***************************************************************************)
(* The partitioned-array collaborator (heat.core), as far as the update    *)
(* uses it.                                                                *)
(***************************************************************************)

\* comm.counts_displs_shape(shape, axis=0): the even split of n rows over
\* `size` ranks, a function of the shape and of the communicator alone
counts_displs_shape(n, size) ==
    LET counts == [p \in 0..(size - 1) |->
                      (n \div size) + (IF p < n % size THEN 1 ELSE 0)]
    IN  [counts |-> counts,
         displs |-> [p \in 0..(size - 1) |-> SumTo(counts, p)]]

\* global index of the first local row of rank p under the partition l
Offset(l, p) == SumTo(l, p)

\* the exception of an index out of range
IndexError == "IndexError"

\* X.lloc[idx, :] on rank p: torch raises IndexError outside 0..lshape[p]-1
llocValid(l, p, idx) == 0 <= idx /\ idx < l[p]

lloc(Xm, l, p, idx) == Xm[Offset(l, p) + idx]

\* comm.Bcast(buf, root): every rank's buffer becomes the root's
Bcast(buf, root) == [p \in DOMAIN buf |-> buf[root]]

\* ht.zeros(d)
zeros(d) == [c \in 0..(d - 1) |-> 0]

\* k-th smallest (k from 0) of the values of the sequence vals
KthSmallest(vals, k) ==
    CHOOSE v \in {vals[j] : j \in DOMAIN vals} :
        /\ Cardinality({j \in DOMAIN vals : vals[j] < v}) <= k
        /\ k < Cardinality({j \in DOMAIN vals : vals[j] <= v})

\* twice the median of a non-empty sequence of integers (linear interpolation
\* between the two middle elements when the length is even)
Median2(vals) ==
    LET n == Len(vals)
    IN  IF n % 2 = 1
        THEN 2 * KthSmallest(vals, (n - 1) \div 2)
        ELSE KthSmallest(vals, (n \div 2) - 1) + KthSmallest(vals, n \div 2)

\* ht.median(clean, axis=0, keepdim=True), entries doubled: the reduction runs
\* along the split axis and its result is replicated on every rank
median(clean, d) ==
    [c \in 0..(d - 1) |-> Median2([j \in 1..Len(clean.rows) |-> clean.rows[j][c]])]

(***************************************************************************)
(* KMedians._update_centroids(X, matching_centroids).                      *)
(***************************************************************************)

\* line 53: selection = (matching_centroids == i).astype(ht.int64)
selection(m, i) == [r \in DOMAIN m |-> IF m[r] = i THEN 1 ELSE 0]

\* line 55: assigned_points = X * selection
assigned_points(Xm, sel) ==
    [r \in DOMAIN Xm |-> [c \in DOMAIN Xm[r] |-> Xm[r][c] * sel[r]]]

\* no row filtered out: every row of the masked matrix is kept
rows_KeepAll(ap) == [r \in DOMAIN ap |-> TRUE]

\* line 56: rows = (assigned_points.abs()).sum(axis=1) != 0
rows(ap) ==
    [r \in DOMAIN ap |->
        SumTo([c \in DOMAIN ap[r] |-> Abs(ap[r][c])], Size(ap[r])) # 0]

RECURSIVE FilterRange(_, _, _, _)
\* the rows lo..lo+n-1 of ap that keep selects, in order
FilterRange(ap, keep, lo, n) ==
    IF n = 0 THEN <<>>
    ELSE FilterRange(ap, keep, lo, n - 1)
            \o (IF keep[lo + n - 1] THEN <<ap[lo + n - 1]>> ELSE <<>>)

\* line 57: local = assigned_points._DNDarray__array[rows._DNDarray__array] on rank p
local(ap, keep, l, p) == FilterRange(ap, keep, Offset(l, p), l[p])

RECURSIVE Concat(_, _)
\* loc[0] \o ... \o loc[w-1]
Concat(loc, w) == IF w = 0 THEN <<>> ELSE Concat(loc, w - 1) \o loc[w - 1]

\* line 58: clean = ht.array(local, is_split=X.split): the ranks' local chunks
\* in rank order are the global array
array_is_split(loc) ==
    [rows |-> Concat(loc, Size(loc)),
     split |-> 0,
     lshape |-> [p \in DOMAIN loc |-> Len(loc[p])]]

\* line 59: clean.balance_()
balance_(a) ==
    [a EXCEPT !.lshape = counts_displs_shape(Len(a.rows), Size(a.lshape)).counts]

\* line 78: clean.resplit_(axis=None): every rank holds all the rows
resplit_None(a) ==
    [a EXCEPT !.split = None, !.lshape = [p \in DOMAIN a.lshape |-> Len(a.rows)]]

RECURSIVE ProcLoop(_, _, _, _, _)
\* lines 65-69: for p in range(size): if displ[p] > sample: break; proc = p
ProcLoop(displ, sample, size, p, proc) ==
    IF p = size THEN proc
    ELSE IF displ[p] > sample THEN proc
    ELSE ProcLoop(displ, sample, size, p + 1, p)

\* lines 63-69: the rank chosen as the root of the broadcast
FallbackProc(n, size, sample) ==
    ProcLoop(counts_displs_shape(n, size).displs, sample, size, 0, 0)

\* line 72: idx = sample - displ[proc]
FallbackIdx(n, size, sample) ==
    sample - counts_displs_shape(n, size).displs[FallbackProc(n, size, sample)]

\* lines 70-73 without the Bcast of line 74: only the root holds the row
FallbackRow_NoBcast(Xm, l, sample) ==
    [p \in 0..(Size(l) - 1) |->
        IF p = FallbackProc(Rows(Xm), Size(l), sample)
        THEN lloc(Xm, l, p, FallbackIdx(Rows(Xm), Size(l), sample))
        ELSE zeros(Cols(Xm))]

\* lines 70-74 with the row never read: the zero buffer of line 70 is broadcast
FallbackRow_Zeros(Xm, l, sample) ==
    Bcast([p \in 0..(Size(l) - 1) |-> zeros(Cols(Xm))],
          FallbackProc(Rows(Xm), Size(l), sample))

\* lines 70-74: xi on every rank after the broadcast
FallbackRow(Xm, l, sample) ==
    LET n    == Rows(Xm)
        size == Size(l)
        proc == FallbackProc(n, size, sample)
        idx  == FallbackIdx(n, size, sample)
        xi   == [p \in 0..(size - 1) |->
                    IF p = proc THEN lloc(Xm, l, proc, idx) ELSE zeros(Cols(Xm))]
    IN  Bcast(xi, proc)

\* line 75 left out: row i keeps what the copy of line 50 put there
SetRow_Skipped(newc, i, row) == newc

\* row i of every rank's new_cluster_centers := row (entries doubled)
SetRow(newc, i, row) ==
    [p \in DOMAIN newc |-> [newc[p] EXCEPT ![i] = [c \in DOMAIN row[p] |-> 2 * row[p][c]]]]

\* the failsafe taken for a cluster of one surviving row as well
IsEmpty_AtMostOne(clean) == Len(clean.rows) <= 1

\* line 62: clean.shape[0] == 0
IsEmpty(clean) == Len(clean.rows) = 0

\* line 77: clean.shape[0] <= ht.MPI_WORLD.size
IsSmall(clean, size) == Len(clean.rows) <= size

\* lines 53-59: clean for cluster i
Clean(Xm, l, m, i) ==
    LET ap   == assigned_points(Xm, selection(m, i))
        keep == rows(ap)
    IN  balance_(array_is_split([p \in DOMAIN l |-> local(ap, keep, l, p)]))

\* the number of clusters for which line 62 holds, each one call of line 64
Reseeds(Xm, l, m, K) ==
    Cardinality({i \in 0..(K - 1) : IsEmpty(Clean(Xm, l, m, i))})

\* X.balance_() in the place of clean.balance_(): the data matrix is
\* redistributed evenly
PartitionAfterBalance_OfX(part, clean) ==
    counts_displs_shape(SumTo(part, Size(part)), Size(part)).counts

\* line 59: clean.balance_() redistributes, in place, the array clean; clean
\* wraps `local`, the tensor that the mask indexing of line 57 allocated, so
\* the partition of X is as it was
PartitionAfterBalance(part, clean) == part

\* lines 53-80: the body of the loop for cluster i.  acc holds every rank's
\* new_cluster_centers, the random values drawn so far, the number of
\* collective operations entered, whether X.lloc raised on the root, and the
\* partition of X as the in-place operations leave it
UpdateCluster(Xm, l, m, i, draws, acc) ==
    LET clean == Clean(Xm, l, m, i)
    IN  IF IsEmpty(clean)
        THEN LET sample == draws[Len(acc.drawn)]
                 proc   == FallbackProc(Rows(Xm), Size(l), sample)
                 idx    == FallbackIdx(Rows(Xm), Size(l), sample)
             IN  IF llocValid(l, proc, idx)
                 THEN [acc EXCEPT !.centers = SetRow(acc.centers, i, FallbackRow(Xm, l, sample)),
                                  !.drawn = Append(acc.drawn, sample),
                                  !.coll = acc.coll + 3,
                                  !.part = PartitionAfterBalance(acc.part, clean)]
                 ELSE [acc EXCEPT !.raised = TRUE,
                                  !.drawn = Append(acc.drawn, sample),
                                  !.coll = acc.coll + 3,
                                  !.part = PartitionAfterBalance(acc.part, clean)]
        ELSE LET small == IsSmall(clean, Size(l))
                 cl    == IF small THEN resplit_None(clean) ELSE clean
                 med   == median(cl, Cols(Xm))
             IN  [acc EXCEPT !.centers = [p \in DOMAIN acc.centers |->
                                             [acc.centers[p] EXCEPT ![i] = med]],
                             !.coll = acc.coll + (IF small THEN 4 ELSE 3),
                             !.part = PartitionAfterBalance(acc.part, clean)]

RECURSIVE UpdateLoop(_, _, _, _, _, _, _)
\* line 51: for i in range(self.n_clusters)
UpdateLoop(Xm, l, m, K, draws, i, acc) ==
    IF i >= K \/ acc.raised THEN acc
    ELSE UpdateLoop(Xm, l, m, K, draws, i + 1, UpdateCluster(Xm, l, m, i, draws, acc))

\* new_cluster_centers = self._cluster_centers, without .copy(): the rows of
\* lines 75 and 80 are written into the estimator's own CenterSet
CentersAfterUpdate_Aliased(centers, new) == new

\* line 50: new_cluster_centers = self._cluster_centers.copy(): lines 75 and 80
\* write into the copy, and self._cluster_centers holds after the call what
\* it held before it
CentersAfterUpdate(centers, new) == centers

\* lines 50-82: _update_centroids on an estimator whose _cluster_centers is
\* `centers` (one copy per rank); draws[j] is the value of the j-th call of
\* ht.random.randint in this update
update_centroids(Xm, l, m, K, centers, draws) ==
    UpdateLoop(Xm, l, m, K, draws, 0,
               [centers |-> centers, drawn |-> <<>>, coll |-> 0, raised |-> FALSE,
                part |-> l])

(***************************************************************************)
(* Inputs.                                                                 *)
(***************************************************************************)
\* the entries of the data
Vals == {-1, 0, 1}

\* the shapes <<N, D>> of the data the update is called on
Shapes == {<<1, 1>>, <<2, 1>>, <<3, 1>>, <<1, 2>>, <<2, 2>>}

\* the shapes <<N, D>> of the data fit is called on
FitShapes == {<<1, 1>>, <<2, 1>>, <<3, 1>>, <<1, 2>>}

MatricesOf(shapes) ==
    UNION {[0..(sh[1] - 1) -> [0..(sh[2] - 1) -> Vals]] : sh \in shapes}

DataMatrices == MatricesOf(Shapes)

FitDataMatrices == MatricesOf(FitShapes)

\* every split of n rows into contiguous, possibly empty, ranges over w ranks
PartitionsOver(n, w) == {l \in [0..(w - 1) -> 0..n] : SumTo(l, w) = n}

Partitions(n) == UNION {PartitionsOver(n, w) : w \in 1..MaxW}

\* the partitions fit is called on: one rank, or two
FitPartitions(n) == UNION {PartitionsOver(n, w) : w \in {1, 2}}

LabelVectors(n, K) == [0..(n - 1) -> 0..(K - 1)]

\* the values of j calls of ht.random.randint(0, n)
Draws(n, j) == [0..(j - 1) -> 0..(n - 1)]

\* a value replicated on w ranks
Replicate(w, v) == [p \in 0..(w - 1) |-> v]

\* some K x D CenterSets an estimator may hold when the update is called on
\* it directly (entries doubled: 3 is the half-integer 3/2, no data value)
PrevCenterSets(K, d) ==
    {[i \in 0..(K - 1) |-> [c \in 0..(d - 1) |-> v]] : v \in {0, 3}}

(***************************************************************************)
(* Direct calls of _update_centroids on an estimator (as a unit test of    *)
(* the update makes them): pc = "direct".                                  *)
(***************************************************************************)
InitUpdate ==
    /\ X \in DataMatrices
    /\ X_type = <<"DNDarray">>
    /\ lshape \in Partitions(Rows(X))
    /\ n_clusters \in 1..MaxK
    /\ max_iter = 0
    /\ tol = None
    /\ cluster_centers \in
           {Replicate(Size(lshape), C) : C \in PrevCenterSets(n_clusters, Cols(X))}
    /\ new_cluster_centers = None
    /\ matching_centroids \in LabelVectors(Rows(X), n_clusters)
    /\ labels = None
    /\ n_iter = None
    /\ inertia = None
    /\ pc = "direct"
    /\ passes = <<>>
    /\ collectives = 0
    /\ call_log = <<>>
    /\ samples = <<>>
    /\ single = None
    /\ error = None
    /\ outcomes = <<>>

\* new = self._update_centroids(X, matching_centroids); a raise of X.lloc on
\* the root leaves the other ranks waiting in Bcast
UpdateCall ==
    /\ pc = "direct"
    /\ Len(call_log) < 2
    /\ \E draws \in Draws(Rows(X), Reseeds(X, lshape, matching_centroids, n_clusters)) :
          \E r \in {update_centroids(X, lshape, matching_centroids, n_clusters,
                                      cluster_centers, draws)} :
              /\ collectives' = r.coll
              /\ samples' = r.drawn
              /\ lshape' = r.part
              /\ IF r.raised
                 THEN /\ pc' = "hung"
                      /\ error' = <<IndexError>>
                      /\ UNCHANGED <<cluster_centers, new_cluster_centers, call_log>>
                 ELSE /\ pc' = pc
                      /\ error' = error
                      /\ cluster_centers' =
                             [p \in DOMAIN cluster_centers |->
                                 CentersAfterUpdate(cluster_centers[p], r.centers[p])]
                      /\ new_cluster_centers' = r.centers
                      /\ call_log' = Append(call_log, r.centers)
    /\ UNCHANGED <<X, X_type, n_clusters, max_iter, tol,
                   matching_centroids, labels, n_iter, inertia, passes, single,
                   outcomes>>

\* self._cluster_centers = new.copy(), as line 112 of fit does between calls
Store ==
    /\ pc = "direct"
    /\ Len(call_log) = 1
    /\ cluster_centers # new_cluster_centers
    /\ cluster_centers' = new_cluster_centers
    /\ UNCHANGED <<X, X_type, lshape, n_clusters, max_iter, tol, new_cluster_centers,
                   matching_centroids, labels, n_iter, inertia, pc, passes,
                   collectives, call_log, samples, single, error, outcomes>>

NextUpdate == UpdateCall \/ Store

SpecUpdate == InitUpdate /\ [][NextUpdate]_vars

(***************************************************************************)
(* The collaborators of fit in heat/cluster/_kcluster.py.                  *)
(***************************************************************************)

\* L1 (Manhattan) distance between the data row x and the center c (doubled)
manhattan(x, c) == SumTo([j \in DOMAIN x |-> Abs(2 * x[j] - c[j])], Size(x))

\* index of the first center nearest to x
argmin(x, C) ==
    CHOOSE i \in DOMAIN C :
        /\ \A j \in DOMAIN C : manhattan(x, C[i]) <= manhattan(x, C[j])
        /\ \A j \in DOMAIN C : j < i => manhattan(x, C[i]) < manhattan(x, C[j])

\* the rank that owns global row r under the partition l
Owner(l, r) == CHOOSE p \in DOMAIN l : Offset(l, p) <= r /\ r < Offset(l, p) + l[p]

\* self._assign_to_cluster(X): every rank labels its local rows against its
\* own copy of the CenterSet
assign_to_cluster(Xm, l, centers) ==
    [r \in DOMAIN Xm |-> argmin(Xm[r], centers[Owner(l, r)])]

\* self._initialize_cluster_centers(X) with init="random": row i of the
\* CenterSet is the data row sel[i], replicated on every rank
initialize_cluster_centers(Xm, l, K, sel) ==
    Replicate(Size(l), [i \in 0..(K - 1) |-> [c \in DOMAIN Xm[sel[i]] |-> 2 * Xm[sel[i]][c]]])

(***************************************************************************)
(* KMedians.fit(X).                                                        *)
(***************************************************************************)

\* line 95: raise ValueError("input needs to be a ht.DNDarray, but was ...")
InputError == "ValueError"

\* the type check left out
isDNDarray_Unchecked(t) == TRUE

\* line 94: isinstance(X, ht.DNDarray)
isDNDarray(t) == t = "DNDarray"

\* the squared differences of the first center only
SquaredDiff_FirstCenter(A, B) ==
    SumTo([c \in DOMAIN A[0] |-> (A[0][c] - B[0][c]) * (A[0][c] - B[0][c])], Size(A[0]))

\* line 111: ((self._cluster_centers - new_cluster_centers) ** 2).sum(), four
\* times its value since both operands are doubled
SquaredDiff(A, B) ==
    SumTo([i \in DOMAIN A |->
              SumTo([c \in DOMAIN A[i] |-> (A[i][c] - B[i][c]) * (A[i][c] - B[i][c])],
                    Size(A[i]))],
          Size(A))

\* the break taken whenever tol is set, the inertia not compared
Converged_InertiaIgnored(t, inert) == t # None

\* line 113: self.tol is not None and self._inertia <= self.tol
Converged(t, inert) == t # None /\ inert <= 4 * t[1]

\* range(self.max_iter + 1)
MorePasses_OneMore(done, limit) == done <= limit

\* line 102: for epoch in range(self.max_iter): another pass follows
MorePasses(done, limit) == done < limit

\* lines 111-114: the inertia and the break decision of every rank, given the
\* pass's assignment m and the update's outcome r
PassOutcome(l, t, centers, m, r) ==
    LET inert == [p \in DOMAIN l |->
                     SquaredDiff(CentersAfterUpdate(centers[p], r.centers[p]),
                                 r.centers[p])]
        brk == {p \in DOMAIN l : Converged(t, inert[p])}
    IN  [matching |-> m,
         raised |-> r.raised,
         coll |-> r.coll,
         drawn |-> r.drawn,
         part |-> r.part,
         new_centers |-> r.centers,
         inertia |-> inert,
         next |-> IF r.raised THEN "hung"
                  ELSE IF brk = DOMAIN l THEN "break"
                  ELSE IF brk = {} THEN "loop"
                  ELSE "hung"]

\* lines 106-109: matching_centroids = self._assign_to_cluster(X), then
\* new_cluster_centers = self._update_centroids(X, matching_centroids)
AssignThenUpdate(Xm, l, K, t, centers, draws, m) ==
    PassOutcome(l, t, centers, m, update_centroids(Xm, l, m, K, centers, draws))

\* lines 104-114: one pass of the loop, as a value
FitPassResult(Xm, l, K, t, centers, draws) ==
    AssignThenUpdate(Xm, l, K, t, centers, draws, assign_to_cluster(Xm, l, centers))

\* the values of tol: None, 0 (as the default 1e-4, below every non-zero
\* inertia of half-integer centers) and 1
Tols == {None, <<0>>, <<1>>}

\* a vector of -1, as of rows not assigned yet
InitialMatching_Unassigned(Xm) == [r \in DOMAIN Xm |-> -1]

\* line 100: matching_centroids = ht.zeros((X.shape[0]), split=X.split, ...)
InitialMatching(Xm) == [r \in DOMAIN Xm |-> 0]

\* the estimator as constructed, and the data the caller holds
Init ==
    /\ X \in FitDataMatrices
    /\ X_type = None
    /\ lshape \in FitPartitions(Rows(X))
    /\ n_clusters \in 1..MaxK
    /\ max_iter \in 0..MaxIter
    /\ tol \in Tols
    /\ cluster_centers = None
    /\ new_cluster_centers = None
    /\ matching_centroids = None
    /\ labels = None
    /\ n_iter = None
    /\ inertia = None
    /\ pc = "idle"
    /\ passes = <<>>
    /\ collectives = 0
    /\ call_log = <<>>
    /\ samples = <<>>
    /\ single = None
    /\ error = None
    /\ outcomes = <<>>

\* lines 93-100 for an argument of type t: the type check, the initialization
\* (sel: the rows the initializer draws), the counter and the all-zero
\* matching_centroids
FitEnterAs(t, sel) ==
    /\ X_type' = <<t>>
    /\ IF ~isDNDarray(t)
       THEN /\ pc' = "raised"
            /\ error' = <<InputError>>
            /\ collectives' = 0
            /\ UNCHANGED <<cluster_centers, new_cluster_centers, matching_centroids,
                           n_iter, passes>>
       ELSE /\ cluster_centers' = initialize_cluster_centers(X, lshape, n_clusters, sel)
            /\ n_iter' = 0
            /\ matching_centroids' = InitialMatching(X)
            /\ new_cluster_centers' = None
            /\ passes' = <<>>
            /\ collectives' = 1
            /\ error' = None
            /\ pc' = "loop"
    /\ UNCHANGED <<X, lshape, n_clusters, max_iter, tol, labels, inertia, call_log,
                   samples, outcomes>>

\* the rows the initializer of line 98 may draw; it is not reached (and draws
\* nothing) when line 95 raises
InitializerDraws(t) ==
    IF isDNDarray(t)
    THEN [0..(n_clusters - 1) -> 0..(Rows(X) - 1)]
    ELSE {[i \in 0..(n_clusters - 1) |-> 0]}

\* fit(X) is called on the estimator: with a DNDarray once, with anything else
\* before or after that
FitEnter ==
    /\ \E t \in {"DNDarray", "ndarray"} :
          /\ pc = "idle" \/ (pc = "returned" /\ ~isDNDarray(t))
          /\ \E sel \in InitializerDraws(t) : FitEnterAs(t, sel)
    /\ UNCHANGED single

\* the loop has another pass to run
CanPass == pc = "loop" /\ MorePasses(n_iter, max_iter)

\* lines 102-114: one pass, line 106 returning m and the random generator draws
FitPassWith(m, draws) ==
    /\ CanPass
    /\ \E r \in {AssignThenUpdate(X, lshape, n_clusters, tol, cluster_centers, draws, m)} :
          /\ n_iter' = n_iter + 1
          /\ matching_centroids' = r.matching
          /\ collectives' = collectives + 1 + r.coll
          /\ samples' = r.drawn
          /\ lshape' = r.part
          /\ pc' = r.next
          /\ IF r.raised
             THEN /\ error' = <<IndexError>>
                  /\ UNCHANGED <<cluster_centers, new_cluster_centers, inertia, passes>>
             ELSE /\ error' = error
                  /\ new_cluster_centers' = r.new_centers
                  /\ inertia' = r.inertia
                  /\ cluster_centers' = r.new_centers
                  /\ passes' = Append(passes, r.inertia[0])
    /\ UNCHANGED <<X, X_type, n_clusters, max_iter, tol, labels, call_log,
                   outcomes>>

\* the calls of line 64 in a pass whose line 106 returns m
PassReseeds(m) == Reseeds(X, lshape, m, n_clusters)

FitPass ==
    /\ CanPass
    /\ \E m \in {assign_to_cluster(X, lshape, cluster_centers)} :
          \E draws \in Draws(Rows(X), PassReseeds(m)) : FitPassWith(m, draws)
    /\ UNCHANGED single

\* line 116 reached from the break only
LoopDone_BreakOnly == pc = "break"

\* the loop is over: break, or range(self.max_iter) is exhausted
LoopDone == pc = "break" \/ (pc = "loop" /\ ~MorePasses(n_iter, max_iter))

\* lines 116-118: self._labels = matching_centroids; return self
FitReturnBody ==
    /\ LoopDone
    /\ labels' = matching_centroids
    /\ pc' = "returned"
    /\ outcomes' = Append(outcomes, [n_iter |-> n_iter, passes |-> passes])
    /\ UNCHANGED <<X, X_type, lshape, n_clusters, max_iter, tol, cluster_centers,
                   new_cluster_centers, matching_centroids, n_iter, inertia, passes,
                   collectives, call_log, samples, error>>

FitReturn == FitReturnBody /\ UNCHANGED single

Next == FitEnter \/ FitPass \/ FitReturn

Spec == Init /\ [][Next]_vars

\* line 104, the step of the counter that every pass of the loop takes: the
\* steps of FitPass are the steps of Next that satisfy it
PassCounted == CanPass /\ n_iter' = n_iter + 1

\* fit keeps running once called: a pass that can run does run, and so does
\* the return (every worker's interpreter takes its next statement, and a
\* collective operation that all workers have entered completes)
SpecFair == Spec /\ WF_n_iter(PassCounted) /\ WF_vars(FitReturn)

(***************************************************************************)
(* The convergence scenario: the 1-D data {-10,-10,-10,10,10,10}, K = 2.   *)
(***************************************************************************)
ConvMaxIter == 4   \* max_iter ranges over 0..ConvMaxIter in this scenario

ConvergenceData == [r \in 0..5 |-> [c \in 0..0 |-> IF r < 3 THEN -10 ELSE 10]]

InitConv ==
    /\ X = ConvergenceData
    /\ X_type = None
    /\ lshape \in Partitions(Rows(X))
    /\ n_clusters = 2
    /\ max_iter \in 0..ConvMaxIter
    /\ tol \in Tols
    /\ cluster_centers = None
    /\ new_cluster_centers = None
    /\ matching_centroids = None
    /\ labels = None
    /\ n_iter = None
    /\ inertia = None
    /\ pc = "idle"
    /\ passes = <<>>
    /\ collectives = 0
    /\ call_log = <<>>
    /\ samples = <<>>
    /\ single = None
    /\ error = None
    /\ outcomes = <<>>

SpecConv == InitConv /\ [][Next]_vars

(***************************************************************************)
(* Two runs: fit is called a second time on the estimator (same max_iter   *)
(* and tol, same data) after it returned; the initializer draws anew.      *)
(***************************************************************************)
InitRuns ==
    /\ InitConv
    /\ Size(lshape) = 1
    /\ tol # None

\* fit(X) is called again after it returned
FitAgain ==
    /\ pc = "returned"
    /\ Len(outcomes) < 2
    /\ \E sel \in InitializerDraws("DNDarray") : FitEnterAs("DNDarray", sel)
    /\ UNCHANGED single

NextRuns == FitEnter \/ FitPass \/ FitReturn \/ FitAgain

SpecRuns == InitRuns /\ [][NextRuns]_vars

(***************************************************************************)
(* Partition equivalence: fit on PairW ranks, and in `single` the same fit *)
(* (same data, same initial CenterSet, same random values) with all rows   *)
(* on one rank.  The two runs advance together.                            *)
(***************************************************************************)
PairW == 4         \* ranks of the partitioned run
PairMaxIter == 2   \* max_iter ranges over 0..PairMaxIter

\* the partition of n rows held by a single rank
OneRank(n) == [p \in 0..0 |-> n]

InitPair ==
    /\ X \in FitDataMatrices
    /\ X_type = None
    /\ lshape \in PartitionsOver(Rows(X), PairW)
    /\ n_clusters \in 1..MaxK
    /\ max_iter \in 0..PairMaxIter
    /\ tol = <<0>>
    /\ cluster_centers = None
    /\ new_cluster_centers = None
    /\ matching_centroids = None
    /\ labels = None
    /\ n_iter = None
    /\ inertia = None
    /\ pc = "idle"
    /\ passes = <<>>
    /\ collectives = 0
    /\ call_log = <<>>
    /\ samples = <<>>
    /\ single = [pc |-> "idle"]
    /\ error = None
    /\ outcomes = <<>>

\* lines 97-100 on one rank
SingleEnter(sel) ==
    [pc |-> "loop",
     cluster_centers |-> initialize_cluster_centers(X, OneRank(Rows(X)), n_clusters, sel),
     matching_centroids |-> InitialMatching(X),
     n_iter |-> 0]

\* lines 102-114 on one rank
SinglePassFrom(st, r) ==
    IF r.raised
    THEN [st EXCEPT !.pc = "hung", !.n_iter = st.n_iter + 1,
                    !.matching_centroids = r.matching]
    ELSE [st EXCEPT !.pc = r.next, !.n_iter = st.n_iter + 1,
                    !.matching_centroids = r.matching,
                    !.cluster_centers = r.new_centers]

SinglePass(st, draws) ==
    SinglePassFrom(st, FitPassResult(X, OneRank(Rows(X)), n_clusters, tol,
                                     st.cluster_centers, draws))

SingleCanPass(st) == st.pc = "loop" /\ MorePasses(st.n_iter, max_iter)

SingleLoopDone(st) ==
    st.pc = "break" \/ (st.pc = "loop" /\ ~MorePasses(st.n_iter, max_iter))

\* lines 116-118 on one rank
SingleReturn(st) ==
    [pc |-> "returned", cluster_centers |-> st.cluster_centers,
     matching_centroids |-> st.matching_centroids, n_iter |-> st.n_iter,
     labels |-> st.matching_centroids]

\* fit(X) is called in both runs; the initializer draws the same rows
PairEnter ==
    /\ pc = "idle"
    /\ \E sel \in [0..(n_clusters - 1) -> 0..(Rows(X) - 1)] :
          /\ FitEnterAs("DNDarray", sel)
          /\ single' = SingleEnter(sel)

\* both runs execute a pass, the random generator returning the same values
PairPass ==
    /\ CanPass \/ SingleCanPass(single)
    /\ \E draws \in Draws(Rows(X), n_clusters) :
          /\ IF CanPass
             THEN FitPassWith(assign_to_cluster(X, lshape, cluster_centers), draws)
             ELSE UNCHANGED <<X, X_type, lshape, n_clusters, max_iter, tol,
                              cluster_centers, new_cluster_centers, matching_centroids,
                              labels, n_iter, inertia, pc, passes, collectives,
                              call_log, samples, error, outcomes>>
          /\ single' = IF SingleCanPass(single) THEN SinglePass(single, draws) ELSE single

\* the runs return
PairReturn ==
    /\ LoopDone \/ SingleLoopDone(single)
    /\ IF LoopDone
       THEN FitReturnBody
       ELSE UNCHANGED <<X, X_type, lshape, n_clusters, max_iter, tol,
                        cluster_centers, new_cluster_centers, matching_centroids,
                        labels, n_iter, inertia, pc, passes, collectives,
                        call_log, samples, error, outcomes>>
    /\ single' = IF SingleLoopDone(single) THEN SingleReturn(single) ELSE single

NextPair == PairEnter \/ PairPass \/ PairReturn

SpecPair == InitPair /\ [][NextPair]_vars

(***************************************************************************)
(* Vocabulary of the properties.                                           *)
(***************************************************************************)

\* the rows labelled i
Members(m, i) == {r \in DOMAIN m : m[r] = i}

IsZeroRow(row) == \A c \in DOMAIN row : row[c] = 0

\* the rows labelled i that are not the all-zero vector
Surviving(Xm, m, i) == {r \in Members(m, i) : ~IsZeroRow(Xm[r])}

RECURSIVE SortedOf(_, _)
\* the values f[r], r in S, in non-decreasing order
SortedOf(f, S) ==
    IF S = {} THEN <<>>
    ELSE LET r == CHOOSE a \in S : \A b \in S : f[a] <= f[b]
         IN  <<f[r]>> \o SortedOf(f, S \ {r})

\* twice the median of the values f[r], r in S (S not empty)
TrueMedian2(f, S) ==
    LET srt == SortedOf(f, S)
        n == Len(srt)
    IN  IF n % 2 = 1 THEN 2 * srt[(n + 1) \div 2]
        ELSE srt[n \div 2] + srt[(n \div 2) + 1]

\* twice the coordinate-wise median of the rows of Xm in S
TrueMedianRow2(Xm, S) ==
    [c \in DOMAIN Xm[0] |-> TrueMedian2([r \in DOMAIN Xm |-> Xm[r][c]], S)]

Doubled(row) == [c \in DOMAIN row |-> 2 * row[c]]

Agree(cs) == \A p, q \in DOMAIN cs : cs[p] = cs[q]

IsCenterSet(C, K, d) ==
    /\ DOMAIN C = 0..(K - 1)
    /\ \A i \in DOMAIN C : DOMAIN C[i] = 0..(d - 1)

\* a direct call of the update has returned; new_cluster_centers is its result
UpdateReturned == pc = "direct" /\ Len(call_log) >= 1

\* the clusters the last update reseeded, and the position of cluster i's
\* sample among the samples it drew
Reseeded(Xm, m, K) == {i \in 0..(K - 1) : Surviving(Xm, m, i) = {}}

DrawIndex(Xm, m, K, i) == Cardinality({k \in Reseeded(Xm, m, K) : k < i}) + 1

\* the terminal state of a returned fit o under the tolerance t: Converged
\* when its last pass computed an Inertia <= t, IterationBudgetExhausted otherwise
Terminal(t, o) ==
    IF t # None /\ Len(o.passes) >= 1 /\ o.passes[Len(o.passes)] <= 4 * t[1]
    THEN "Converged"
    ELSE "IterationBudgetExhausted"

RECURSIVE SumOver(_, _)
\* the sum of f[a] over the a in S
SumOver(f, S) ==
    IF S = {} THEN 0
    ELSE LET a == CHOOSE b \in S : TRUE IN f[a] + SumOver(f, S \ {a})

\* four times the sum of the squared element-wise differences of the
\* CenterSets whose doubled entries are A and B
SquaredDistance(A, B) ==
    LET cells == {ic \in (DOMAIN A) \X (DOMAIN A[0]) : TRUE}
    IN  SumOver([ic \in cells |->
                    (A[ic[1]][ic[2]] - B[ic[1]][ic[2]]) * (A[ic[1]][ic[2]] - B[ic[1]][ic[2]])],
                cells)

\* fit is inside a call on a DNDarray, or has returned from it
FitRunning == pc \in {"loop", "break", "returned"}

(***************************************************************************)
(* C1 .. C10                                                               *)
(***************************************************************************)

\* C1: fit runs at most max_iter passes; the iteration count is the number of
\* passes executed; with tol set no pass follows a pass whose inertia is
\* <= tol, and fit returns only after such a pass or after max_iter passes.
C1_PassBudget ==
    FitRunning =>
        /\ n_iter <= max_iter
        /\ n_iter = Len(passes)
        /\ \A j \in 1..(Len(passes) - 1) : ~Converged(tol, passes[j])
        /\ pc = "break" => Converged(tol, passes[Len(passes)])
        /\ pc = "returned" =>
              \/ n_iter = max_iter
              \/ Converged(tol, passes[Len(passes)])
        /\ pc = "loop" /\ n_iter >= 1 => ~Converged(tol, passes[Len(passes)])

\* C1 witness: fit returned after two passes with a pass left in the budget:
\* the first pass did not reach tol, the second did
C1_Witness ==
    /\ pc = "returned"
    /\ n_iter = 2
    /\ max_iter = 3
    /\ ~Converged(tol, passes[1])
    /\ Converged(tol, passes[2])

\* C2: after every call of the update all ranks hold the identical K x D
\* CenterSet, whether a cluster was updated by the median or by the
\* broadcast of the sampled row.
C2_AllRanksAgree ==
    UpdateReturned =>
        /\ Agree(new_cluster_centers)
        /\ \A p \in DOMAIN lshape :
              /\ DOMAIN new_cluster_centers = DOMAIN lshape
              /\ IsCenterSet(new_cluster_centers[p], n_clusters, Cols(X))

\* C2 witness: two ranks, one cluster reseeded with a non-zero row read on
\* rank 1, another cluster updated by its median
C2_Witness ==
    /\ UpdateReturned
    /\ Size(lshape) = 2
    /\ \E i, k \in 0..(n_clusters - 1) :
          /\ Members(matching_centroids, i) = {}
          /\ Surviving(X, matching_centroids, k) # {}
          /\ ~IsZeroRow(new_cluster_centers[0][i])
          /\ FallbackProc(Rows(X), Size(lshape), samples[1]) = 1

\* C3: every cluster with at least one row labelled i gets the coordinate-wise
\* median of all the rows labelled i.
C3_MedianOfMembers ==
    UpdateReturned =>
        \A i \in 0..(n_clusters - 1) : \A p \in DOMAIN lshape :
            Members(matching_centroids, i) # {} =>
                new_cluster_centers[p][i]
                    = TrueMedianRow2(X, Members(matching_centroids, i))

\* C4: a cluster with no assigned row gets, on every rank, the data row at
\* the sampled global index.
C4_SampledRow ==
    UpdateReturned =>
        \A i \in 0..(n_clusters - 1) : \A p \in DOMAIN lshape :
            Members(matching_centroids, i) = {} =>
                new_cluster_centers[p][i]
                    = Doubled(X[samples[DrawIndex(X, matching_centroids, n_clusters, i)]])

\* C5 as stated: two calls of the update with the same DataMatrix and
\* LabelVector return the same CenterSet, for every LabelVector.
C5_Idempotent == Len(call_log) = 2 => call_log[1] = call_log[2]

\* C5, amended: two calls of the update with the same DataMatrix and
\* LabelVector return the same CenterSet, whatever the previous CenterSet,
\* when every cluster has an assigned row that is not all-zero.
C5_IdempotentWithoutReseed ==
    Len(call_log) = 2 /\ Reseeded(X, matching_centroids, n_clusters) = {}
        => call_log[1] = call_log[2]

\* C5 witness: the second call ran on the CenterSet the first one returned,
\* which differs from the CenterSet the first call ran on
C5_Witness ==
    /\ Len(call_log) = 2
    /\ Reseeded(X, matching_centroids, n_clusters) = {}
    /\ n_clusters = 2
    /\ cluster_centers = call_log[1]

\* C6: a cluster with exactly one assigned row gets that row unchanged.
C6_SingleRow ==
    UpdateReturned =>
        \A i \in 0..(n_clusters - 1) : \A p \in DOMAIN lshape :
            \A r \in DOMAIN X :
                Members(matching_centroids, i) = {r} =>
                    new_cluster_centers[p][i] = Doubled(X[r])

\* every rank's CenterSet is the set {a, b} of 1-D centers (doubled: 2a, 2b)
CentersAre(a, b) ==
    \A p \in DOMAIN cluster_centers :
        {cluster_centers[p][i][0] : i \in DOMAIN cluster_centers[p]} = {2 * a, 2 * b}

\* some pass among the first k computed the inertia 0
InertiaZeroWithin(k) == \E j \in 1..Len(passes) : j <= k /\ passes[j] = 0

\* C7 as stated: on the data {-10,-10,-10,10,10,10} with K = 2, once two
\* passes have run (or fit has left the loop with a budget of two or more) the
\* centers are {-10, 10} and one of the first two passes computed Inertia 0.
C7_ConvergedWithinTwo ==
    FitRunning /\ (n_iter >= 2 \/ (pc \in {"break", "returned"} /\ max_iter >= 2))
        => CentersAre(-10, 10) /\ InertiaZeroWithin(2)

\* C7, amended: the centers are {-10, 10} from the second pass on, and
\* Inertia 0 is computed by the third pass at the latest.
C7_CentersWithinTwoInertiaWithinThree ==
    FitRunning =>
        /\ n_iter >= 2 => CentersAre(-10, 10)
        /\ n_iter >= 3 => InertiaZeroWithin(3)
        /\ pc \in {"break", "returned"} /\ max_iter >= 3
              => CentersAre(-10, 10) /\ InertiaZeroWithin(3)

\* C7 witness: the run that needs the third pass: an empty cluster was
\* reseeded in pass 1, pass 2 still moved a center, pass 3 computed Inertia 0
C7_Witness ==
    /\ X = ConvergenceData
    /\ pc = "returned"
    /\ n_iter = 3
    /\ passes[1] # 0 /\ passes[2] # 0 /\ passes[3] = 0
    /\ CentersAre(-10, 10)

\* C8: the run on PairW ranks and the run on one rank return the same
\* CenterSet, the same LabelVector and the same iteration count.
C8_PartitionInvariant ==
    pc = "returned" /\ single.pc = "returned" =>
        /\ \A p \in DOMAIN cluster_centers :
              cluster_centers[p] = single.cluster_centers[0]
        /\ labels = single.labels
        /\ n_iter = single.n_iter

\* the label of every row is the index of a center nearest to the row among
\* the CenterSet centers (of the rank that owns the row)
LabelsNearest(lab, centers) ==
    \A r \in DOMAIN X :
        LET C == centers[Owner(lshape, r)]
        IN  \A j \in DOMAIN C : manhattan(X[r], C[lab[r]]) <= manhattan(X[r], C[j])

\* C9 as stated: when fit returns, every row's label is the index of a center
\* nearest to it among the returned CenterSet.
C9_LabelsNearestReturned ==
    pc = "returned" => LabelsNearest(labels, cluster_centers)

\* C9, amended: when fit returns after a last pass whose Inertia is 0, every
\* row's label is the index of a center nearest to it among the returned
\* CenterSet.
C9_LabelsNearestWhenSettled ==
    pc = "returned" /\ n_iter >= 1 /\ (\A p \in DOMAIN inertia : inertia[p] = 0)
        => LabelsNearest(labels, cluster_centers)

\* C9 witness: fit returned after a pass of Inertia 0 that followed a pass
\* which moved the centers, with rows in both clusters
C9_Witness ==
    /\ pc = "returned"
    /\ n_iter >= 2
    /\ passes[1] # 0
    /\ \A p \in DOMAIN inertia : inertia[p] = 0
    /\ \E r, q \in DOMAIN X : labels[r] # labels[q]

\* a call of fit with an argument that is not a DNDarray leaves the estimator alone
RaiseStep ==
    pc \in {"idle", "returned"} /\ X_type' = <<"ndarray">>
        => /\ pc' = "raised"
           /\ cluster_centers' = cluster_centers
           /\ labels' = labels
           /\ n_iter' = n_iter
           /\ inertia' = inertia
           /\ collectives' = 0

\* C10: a call of fit with an argument that is not a DNDarray raises at entry:
\* the CenterSet, the labels, the iteration counter and the inertia are left
\* as they were and no collective operation is started.
C10_RaiseLeavesEstimator == [][RaiseStep]_vars

\* C10 witness: the call raised on an estimator that an earlier fit had left
\* with a CenterSet, labels and an iteration count
C10_Witness ==
    /\ pc = "raised"
    /\ X_type = <<"ndarray">>
    /\ labels # None
    /\ n_iter >= 1
    /\ collectives = 0

(***************************************************************************)
(* C11 .. C20                                                              *)
(***************************************************************************)

\* C11: the failure fit raises for an argument that is not a DNDarray is of
\* kind TypeError / InvalidInput.
C11_RaisesTypeError ==
    pc = "raised" => error \in {<<"TypeError">>, <<"InvalidInput">>}

\* C12 as stated: with tol set, two runs of fit that return the same
\* iteration count under the same max_iter ended in the same terminal state.
C12_TerminalFromCount ==
    tol # None =>
        \A a, b \in 1..Len(outcomes) :
            outcomes[a].n_iter = outcomes[b].n_iter
                => Terminal(tol, outcomes[a]) = Terminal(tol, outcomes[b])

\* C12, amended: with tol set, a run that returns an iteration count below
\* max_iter ended Converged; the count never exceeds max_iter.
C12_BelowBudgetIsConverged ==
    tol # None =>
        \A a \in 1..Len(outcomes) :
            /\ outcomes[a].n_iter <= max_iter
            /\ outcomes[a].n_iter < max_iter => Terminal(tol, outcomes[a]) = "Converged"

\* C12 witness: two runs returned under the same max_iter, one below the
\* budget and Converged, the other with the whole budget used and not Converged
C12_Witness ==
    /\ Len(outcomes) = 2
    /\ tol # None
    /\ outcomes[1].n_iter >= 1
    /\ outcomes[1].n_iter < max_iter
    /\ Terminal(tol, outcomes[1]) = "Converged"
    /\ outcomes[2].n_iter = max_iter
    /\ Terminal(tol, outcomes[2]) = "IterationBudgetExhausted"

\* C13: after fit returns, the LabelVector has one entry per row of the
\* DataMatrix and every entry is a cluster index in [0, K), for every
\* max_iter >= 0 (with max_iter = 0 it is the initial all-zero vector).
C13_LabelsInRange ==
    pc = "returned" =>
        /\ DOMAIN labels = DOMAIN X
        /\ \A r \in DOMAIN X : labels[r] \in 0..(n_clusters - 1)
        /\ max_iter = 0 => \A r \in DOMAIN X : labels[r] = 0

\* C13 witness: fit returned with max_iter = 0 on an estimator of two
\* clusters and three rows: no pass ran and no assignment was computed
C13_Witness ==
    /\ pc = "returned"
    /\ max_iter = 0
    /\ n_iter = 0
    /\ n_clusters = 2
    /\ Rows(X) = 3
    /\ \A r \in DOMAIN X : labels[r] = 0

\* the partition l is not the even one
Unbalanced(l) == l # counts_displs_shape(SumTo(l, Size(l)), Size(l)).counts

\* C14: no step of fit, and no call of the centroid update in it, changes
\* the DataMatrix: its rows and its partition over the workers (hence every
\* worker's local rows) are after the step what they were before it.
C14_DataUnchanged == [][X' = X /\ lshape' = lshape]_vars

\* C14 witness: fit returned after two or more passes on a DataMatrix that
\* two workers hold unevenly, the last update having reseeded a cluster
C14_Witness ==
    /\ pc = "returned"
    /\ n_iter >= 2
    /\ Size(lshape) = 2
    /\ Unbalanced(lshape)
    /\ samples # <<>>

RootOwns(s) ==
    LET proc == FallbackProc(Rows(X), Size(lshape), s)
        idx  == FallbackIdx(Rows(X), Size(lshape), s)
    IN  /\ Offset(lshape, proc) <= s
        /\ s < Offset(lshape, proc) + lshape[proc]
        /\ llocValid(lshape, proc, idx)
        /\ Offset(lshape, proc) + idx = s

\* C16: for every partition of the DataMatrix and every global index the
\* fallback has sampled, the broadcast root is the worker that owns the
\* sampled row and the local index is a valid index of that row in it.
C16_RootOwnsSampledRow ==
    pc \in {"direct", "hung"} => \A j \in 1..Len(samples) : RootOwns(samples[j])

\* C17: in every centroid update all workers run the same control flow and
\* enter every collective operation together: no update leaves workers
\* blocked in a collective operation that a peer never enters, and no worker
\* leaves the update by an exception.
C17_NoWorkerBlocks == pc # "hung" /\ error = None

\* a pass of fit that ran to its end stores, on every rank, as Inertia the sum
\* of the squared differences between the CenterSet held before the pass and
\* the CenterSet the update returned, and as CenterSet the returned one
InertiaStep ==
    pc = "loop" /\ n_iter' = n_iter + 1 /\ error' = None
        => /\ \A p \in DOMAIN lshape :
                 inertia'[p] = SquaredDistance(cluster_centers[p], new_cluster_centers'[p])
           /\ cluster_centers' = new_cluster_centers'
           /\ passes' = Append(passes, inertia'[0])

\* C18: in every pass of fit the Inertia is the sum of squared element-wise
\* differences between the CenterSet as it was before that pass's update and
\* the CenterSet the update returned, which then replaces it: the update does
\* not write into the previous CenterSet.
C18_InertiaFromPreviousCenters == [][InertiaStep]_vars

\* C18 witness: the second or a later pass, run on a CenterSet that an
\* earlier pass had stored, moved the centers: its Inertia is not 0
C18_Witness ==
    /\ pc \in {"loop", "break", "returned"}
    /\ n_iter >= 2
    /\ passes[1] # 0
    /\ inertia[0] # 0
    /\ inertia[0] = passes[Len(passes)]

\* after the loop is left nothing of the run's result changes, and the loop
\* is entered from the initialization only
TerminalStep ==
    /\ pc \in {"break", "returned"} =>
           /\ pc' \in {"returned", "raised"}
           /\ n_iter' = n_iter
           /\ cluster_centers' = cluster_centers
           /\ passes' = passes
    /\ pc' = "loop" /\ n_iter' = 0 => pc = "idle"
    /\ pc' = "loop" /\ pc = "loop" => n_iter' = n_iter + 1

\* C19: every run of fit on a DNDarray in which no worker drops out of a
\* collective operation returns after finitely many passes, in exactly one
\* of the two terminal states; the loop never goes back to the
\* initialization and never continues after its end.
C19_FitTerminates ==
    /\ (pc = "loop") ~> (pc = "returned" \/ pc = "hung")
    /\ [][TerminalStep]_vars

\* C19 witness: fit returned with its budget of three passes used up and the
\* last pass not within the tolerance
C19_Witness ==
    /\ pc = "returned"
    /\ n_iter = 3
    /\ max_iter = 3
    /\ tol # None
    /\ Terminal(tol, [n_iter |-> n_iter, passes |-> passes]) = "IterationBudgetExhausted"

\* C20: after every centroid update, each row i of the returned CenterSet is
\* the median of cluster i's surviving rows or, for a cluster without
\* surviving rows, a row of the DataMatrix: no row is what the previous
\* CenterSet held, whatever values that CenterSet had.
C20_NoRowCarriedOver ==
    UpdateReturned =>
        \A i \in 0..(n_clusters - 1) : \A p \in DOMAIN lshape :
            IF Surviving(X, matching_centroids, i) # {}
            THEN new_cluster_centers[p][i]
                     = TrueMedianRow2(X, Surviving(X, matching_centroids, i))
            ELSE \E r \in DOMAIN X : new_cluster_centers[p][i] = Doubled(X[r])

\* C20 witness: the update ran on a previous CenterSet none of whose values
\* occurs in the data, reseeded one cluster and took the median for another
C20_Witness ==
    /\ UpdateReturned
    /\ Len(call_log) = 1
    /\ n_clusters = 2
    /\ \A p \in DOMAIN cluster_centers : \A i \in 0..(n_clusters - 1) :
          \A c \in DOMAIN cluster_centers[p][i] : cluster_centers[p][i][c] = 3
    /\ \E i, k \in 0..(n_clusters - 1) :
          /\ Surviving(X, matching_centroids, i) = {}
          /\ Surviving(X, matching_centroids, k) # {}
    /\ \A p \in DOMAIN new_cluster_centers : \A i \in 0..(n_clusters - 1) :
          \A c \in DOMAIN new_cluster_centers[p][i] : new_cluster_centers[p][i][c] # 3

====
